---- MODULE Spec2Model ----
(***************************************************************************)
(* Model of streamlit_app.py: the cached, encoding-resilient CSV loader    *)
(* load_data and the top-to-bottom script run that loads three files,      *)
(* takes the topic / year-range / region selection and filters the table.  *)
(*                                                                         *)
(* A text (column label, cell) is a sequence of one-character strings, so  *)
(* that strip, isdigit, int and str are computed, not assumed.             *)
(***************************************************************************)
EXTENDS Integers, Sequences, FiniteSets, TLC

(***************************************************************************)
(* Python text helpers                                                     *)
(***************************************************************************)

\* characters str.strip() removes
Whitespace == {" ", "\t"}

\* "0".."9" in order: the position minus one is the digit's value
DigitChars == <<"0", "1", "2", "3", "4", "5", "6", "7", "8", "9">>

IsDigitChar(c) == \E i \in 1..Len(DigitChars) : DigitChars[i] = c

DigitValue(c) == (CHOOSE i \in 1..Len(DigitChars) : DigitChars[i] = c) - 1

RECURSIVE lstrip(_)
lstrip(s) ==
    IF s # <<>> /\ Head(s) \in Whitespace THEN lstrip(Tail(s)) ELSE s

RECURSIVE rstrip(_)
rstrip(s) ==
    IF s # <<>> /\ s[Len(s)] \in Whitespace
    THEN rstrip(SubSeq(s, 1, Len(s) - 1))
    ELSE s

\* only the leading whitespace removed
strip_LeftOnly(s) == lstrip(s)

\* str.strip()
strip(s) == rstrip(lstrip(s))

\* a digit test whose range stops at "8"
isdigit_NoNine(s) ==
    s # <<>> /\ \A i \in 1..Len(s) : \E k \in 1..9 : DigitChars[k] = s[i]

\* str.isdigit(): non-empty and every character a digit
isdigit(s) == s # <<>> /\ \A i \in 1..Len(s) : IsDigitChar(s[i])

\* int(text) for a text of digits
RECURSIVE int(_)
int(s) ==
    IF s = <<>> THEN 0
    ELSE 10 * int(SubSeq(s, 1, Len(s) - 1)) + DigitValue(s[Len(s)])

\* str(n) for a non-negative integer: decimal digits, no leading zero
RECURSIVE str(_)
str(n) ==
    IF n < 10 THEN <<DigitChars[n + 1]>>
    ELSE str(n \div 10) \o <<DigitChars[(n % 10) + 1]>>

\* range(lo, hi + 1) as a sequence
range(lo, hi) == [i \in 1..(IF hi >= lo THEN hi - lo + 1 ELSE 0) |-> lo + i - 1]

SeqToSet(s) == {s[i] : i \in 1..Len(s)}

Min(S) == CHOOSE x \in S : \A y \in S : x <= y
Max(S) == CHOOSE x \in S : \A y \in S : x >= y

(***************************************************************************)
(* Cells and tables (pandas DataFrame)                                     *)
(***************************************************************************)

\* a cell is a text (object dtype) or a number (int64 dtype)
T(s) == [kind |-> "str", text |-> s, num |-> 0]
N(n) == [kind |-> "num", text |-> <<>>, num |-> n]

\* the 'Name' label, line 47
NameLabel == <<"N", "a", "m", "e">>

\* "no table": the value of a table variable that is not bound yet
NoDf == [columns |-> <<>>, rows |-> <<>>, enc |-> "none"]

\* positions of the columns carrying a label
ColIdx(d, label) == {i \in 1..Len(d.columns) : d.columns[i] = label}

\* 'Name' in df.columns
HasColumn(d, label) == ColIdx(d, label) # {}

\* df.rename(columns=lambda x: x.strip()), line 44
rename_strip(d) ==
    [d EXCEPT !.columns = [i \in 1..Len(d.columns) |-> strip(d.columns[i])]]

\* df['Name'].str is available: one column carries the label and its cells
\* are texts (the .str accessor raises AttributeError otherwise), line 52
HasStrAccessor(d, label) ==
    /\ Cardinality(ColIdx(d, label)) = 1
    /\ \A r \in 1..Len(d.rows) : \A i \in ColIdx(d, label) :
           d.rows[r][i].kind = "str"

\* df['Name'] = df['Name'].str.strip(), line 52
str_strip(d, label) ==
    [d EXCEPT !.rows = [r \in 1..Len(d.rows) |->
        [i \in 1..Len(d.columns) |->
            IF i \in ColIdx(d, label)
            THEN T(strip(d.rows[r][i].text))
            ELSE d.rows[r][i]]]]

\* the cell of row r under the (single) column carrying the label
CellOf(d, r, label) == d.rows[r][CHOOSE i \in ColIdx(d, label) : TRUE]

(***************************************************************************)
(* Input files.  A file on disk is its CSV text (header and rows, as the   *)
(* separator ';' splits it) together with the outcome of reading it under  *)
(* each encoding of the chain: "ok", "decode" (UnicodeDecodeError) or      *)
(* "other" (any other exception of pd.read_csv).                           *)
(***************************************************************************)

\* the encodings load_data passes to pd.read_csv, lines 28, 33, 37, 40
Detected == "detected"
Utf8 == "utf-8"
Cp1251 == "cp1251"
Latin1 == "latin1"

Encodings == {Detected, Utf8, Cp1251, Latin1}

Y2018 == <<"2", "0", "1", "8">>
Y2019 == <<"2", "0", "1", "9">>
Y2020 == <<"2", "0", "2", "0">>
Abc == <<"a", "b", "c">>
Moscow == <<"M", "o", "s">>
Tula == <<"T", "u", "l">>
Omsk == <<"O", "m", "s">>
Kazan == <<"K", "a", "z">>
Pad(s) == <<" ">> \o s \o <<" ">>

\* Name;2018;2019;2020;abc with ' Mos ', 'Tul', 'Mos'
CsvWide ==
    [columns |-> <<NameLabel, Y2018, Y2019, Y2020, Abc>>,
     rows |-> << <<T(Pad(Moscow)), N(1), N(2), N(3), T(Abc)>>,
                 <<T(Tula), N(4), N(5), N(6), T(Abc)>>,
                 <<T(Moscow), N(7), N(8), N(9), T(Abc)>> >>]

\* ' Name ';2018;' 2020 ': padded labels, the year 2019 is absent
CsvGap ==
    [columns |-> <<Pad(NameLabel), Y2018, Pad(Y2020)>>,
     rows |-> << <<T(Omsk \o <<" ">>), N(1), N(2)>>,
                 <<T(Tula), N(3), N(4)>> >>]

\* Region;2018: no 'Name' column
CsvNoName ==
    [columns |-> <<<<"R", "e", "g">>, Y2018>>,
     rows |-> << <<T(Tula), N(1)>> >>]

\* Name;abc: no year column
CsvNoYears ==
    [columns |-> <<NameLabel, Abc>>,
     rows |-> << <<T(Tula), T(Abc)>> >>]

\* Name;2019 with numeric identifiers: the column is parsed as int64
CsvNumericNames ==
    [columns |-> <<NameLabel, Y2019>>,
     rows |-> << <<N(77), N(1)>>, <<N(78), N(2)>> >>]

\* Name;2019, header only
CsvNoRows ==
    [columns |-> <<NameLabel, Y2019>>,
     rows |-> << >>]

\* Name;' Name';2018: two labels that are equal after trimming
CsvTwoNames ==
    [columns |-> <<NameLabel, <<" ">> \o NameLabel, Y2018>>,
     rows |-> << <<T(Tula), T(Omsk), N(1)>> >>]

Outcomes(det, u, c, l) ==
    [e \in Encodings |->
        IF e = Detected THEN det ELSE IF e = Utf8 THEN u
        ELSE IF e = Cp1251 THEN c ELSE l]

OnDisk(csv, parse) == [exists |-> TRUE, csv |-> csv, parse |-> parse]

\* the files a path can hold
Pool ==
    { OnDisk(CsvWide, Outcomes("ok", "ok", "ok", "ok")),
      OnDisk(CsvGap, Outcomes("decode", "ok", "ok", "ok")),
      OnDisk(CsvNoYears, Outcomes("decode", "decode", "other", "ok")),
      OnDisk(CsvNoRows, Outcomes("decode", "other", "ok", "ok")),
      OnDisk(CsvNoName, Outcomes("ok", "ok", "ok", "ok")),
      OnDisk(CsvNoName, Outcomes("decode", "decode", "ok", "ok")),
      OnDisk(CsvNoName, Outcomes("decode", "decode", "decode", "ok")),
      OnDisk(CsvNumericNames, Outcomes("ok", "ok", "ok", "ok")),
      OnDisk(CsvTwoNames, Outcomes("decode", "ok", "ok", "ok")),
      OnDisk(CsvWide, Outcomes("other", "ok", "ok", "ok")),
      OnDisk(CsvWide, Outcomes("decode", "decode", "decode", "other")),
      [exists |-> FALSE, csv |-> CsvNoRows,
       parse |-> Outcomes("other", "other", "other", "other")] }

\* pd.read_csv(file_name, sep=';', encoding=e) when it succeeds: the table
\* of the file as decoded under e
read_csv(f, e) == [columns |-> f.csv.columns, rows |-> f.csv.rows, enc |-> e]

(***************************************************************************)
(* The script                                                              *)
(***************************************************************************)

\* load order, lines 65-67
Paths == <<"budget.csv", "housing.csv", "investments.csv">>
PathIdx == 1..Len(Paths)

\* radio options, line 76, in the order of the files they select
Topics == <<"budget", "housing", "investments">>

\* cp1251 tried before utf-8
FallbackChain_Swapped == <<Cp1251, Utf8, Latin1>>

\* the fallback order after the detected encoding, lines 33, 37, 40
FallbackChain == <<Utf8, Cp1251, Latin1>>

VARIABLES
    disk,             \* disk[i]: the file behind Paths[i]
    cache,            \* st.cache_data memo of load_data, keyed by path
    stale,            \* stale[i]: the file changed after cache[i] was stored
    changes,          \* number of file changes so far
    pc,               \* position of the script run
    file,             \* index of the path being loaded, 0 outside the loads
    lpc,              \* position inside load_data
    attempts,         \* pd.read_csv calls of the current load_data call
    rawdf,            \* load_data's local df
    loaded,           \* budget_df, housing_df, investments_df
    page,             \* elements rendered by the current run, in order
    exc,              \* exception that ended the run, "" if none
    topic,
    df,
    numeric_cols,
    available_years,
    year_range,
    year_columns,
    all_regions,
    selected_regions,
    filtered_df

vars == <<disk, cache, stale, changes, pc, file, lpc, attempts, rawdf, loaded,
          page, exc, topic, df, numeric_cols, available_years, year_range,
          year_columns, all_regions, selected_regions, filtered_df>>

fsVars == <<disk, stale, changes>>
loadVars == <<file, lpc, attempts, rawdf>>
uiVars == <<topic, df, numeric_cols, available_years, year_range,
            year_columns, all_regions, selected_regions, filtered_df>>

\* script variables before any line has run
FreshUi ==
    /\ topic = "" /\ df = NoDf /\ numeric_cols = <<>>
    /\ available_years = <<>> /\ year_range = <<0, 0>>
    /\ year_columns = <<>> /\ all_regions = <<>>
    /\ selected_regions = {} /\ filtered_df = NoDf

Idle ==
    /\ pc = "idle" /\ file = 0 /\ lpc = "" /\ attempts = <<>>
    /\ rawdf = NoDf /\ loaded = [i \in PathIdx |-> NoDf]
    /\ page = <<>> /\ exc = ""
    /\ FreshUi

Init ==
    /\ disk \in [PathIdx -> Pool]
    /\ cache = [i \in PathIdx |-> NoDf]
    /\ stale = [i \in PathIdx |-> FALSE]
    /\ changes = 0
    /\ Idle

(***************************************************************************)
(* Top of the script and load_data                                         *)
(***************************************************************************)

\* lines 59-62: the title is rendered, then the load block is entered
StartRun ==
    /\ pc = "idle"
    /\ pc' = "load"
    /\ page' = <<"title">>
    /\ file' = 1
    /\ lpc' = "call"
    /\ UNCHANGED <<fsVars, cache, attempts, rawdf, loaded, exc, uiVars>>

\* load_data without its memo
CacheLookup_Never(i) == NoDf

\* @st.cache_data, line 9: the memo is keyed by the argument only
CacheLookup(i) == cache[i]

\* load_data returns d to lines 65-67: the next load follows, or line 73
Return(d) ==
    /\ loaded' = [loaded EXCEPT ![file] = d]
    /\ attempts' = <<>>
    /\ rawdf' = NoDf
    /\ IF file < Len(Paths)
       THEN /\ file' = file + 1 /\ lpc' = "call" /\ pc' = pc
       ELSE /\ file' = 0 /\ lpc' = "" /\ pc' = "topic"
    /\ UNCHANGED <<page, exc>>

\* the handler without its st.stop(): the script goes on to line 73
HandleLoadError_NoStop(e) ==
    /\ page' = Append(page, "load_error")
    /\ exc' = e
    /\ pc' = "topic"
    /\ UNCHANGED <<file, loaded>>

\* lines 68-70: an exception of load_data is shown and the run stops
HandleLoadError(e) ==
    /\ page' = Append(page, "load_error")
    /\ exc' = e
    /\ pc' = "stopped"
    /\ UNCHANGED <<file, loaded>>

\* a call of load_data that the memo answers: the body does not run
CacheHit ==
    /\ pc = "load" /\ lpc = "call"
    /\ CacheLookup(file) # NoDf
    /\ Return(CacheLookup(file))
    /\ UNCHANGED <<fsVars, cache, uiVars>>

\* a call of load_data that the memo does not answer: the body starts
CacheMiss ==
    /\ pc = "load" /\ lpc = "call"
    /\ CacheLookup(file) = NoDf
    /\ lpc' = "open"
    /\ UNCHANGED <<fsVars, cache, pc, file, attempts, rawdf, loaded, page,
                   exc, uiVars>>

\* lines 22-24: read the prefix and detect the encoding
Detect ==
    /\ pc = "load" /\ lpc = "open"
    /\ IF disk[file].exists
       THEN /\ lpc' = "try_detected"
            /\ UNCHANGED <<pc, file, loaded, page, exc>>
       ELSE /\ HandleLoadError("FileNotFoundError")
            /\ lpc' = lpc
    /\ UNCHANGED <<fsVars, cache, attempts, rawdf, uiVars>>

\* one pd.read_csv call, recorded in the order the calls are made
Attempt(e) == Append(attempts, [enc |-> e, result |-> disk[file].parse[e]])

\* lines 27-29: only UnicodeDecodeError enters the fallback chain
TryDetected ==
    /\ pc = "load" /\ lpc = "try_detected"
    /\ attempts' = Attempt(Detected)
    /\ CASE disk[file].parse[Detected] = "ok" ->
              /\ rawdf' = read_csv(disk[file], Detected)
              /\ lpc' = "clean"
              /\ UNCHANGED <<pc, file, loaded, page, exc>>
         [] disk[file].parse[Detected] = "decode" ->
              /\ lpc' = "try_utf8"
              /\ UNCHANGED <<pc, file, loaded, page, exc, rawdf>>
         [] OTHER ->
              /\ HandleLoadError("Exception")
              /\ UNCHANGED <<lpc, rawdf>>
    /\ UNCHANGED <<fsVars, cache, uiVars>>

\* lines 31-34: bare except, any failure moves on
TryUtf8 ==
    /\ pc = "load" /\ lpc = "try_utf8"
    /\ attempts' = Attempt(FallbackChain[1])
    /\ IF disk[file].parse[FallbackChain[1]] = "ok"
       THEN /\ rawdf' = read_csv(disk[file], FallbackChain[1])
            /\ lpc' = "clean"
       ELSE /\ lpc' = "try_cp1251"
            /\ UNCHANGED rawdf
    /\ UNCHANGED <<fsVars, cache, pc, file, loaded, page, exc, uiVars>>

\* lines 35-38: bare except, any failure moves on
TryCp1251 ==
    /\ pc = "load" /\ lpc = "try_cp1251"
    /\ attempts' = Attempt(FallbackChain[2])
    /\ IF disk[file].parse[FallbackChain[2]] = "ok"
       THEN /\ rawdf' = read_csv(disk[file], FallbackChain[2])
            /\ lpc' = "clean"
       ELSE /\ lpc' = "try_latin1"
            /\ UNCHANGED rawdf
    /\ UNCHANGED <<fsVars, cache, pc, file, loaded, page, exc, uiVars>>

\* lines 39-40: the last attempt has no handler of its own
TryLatin1 ==
    /\ pc = "load" /\ lpc = "try_latin1"
    /\ attempts' = Attempt(FallbackChain[3])
    /\ IF disk[file].parse[FallbackChain[3]] = "ok"
       THEN /\ rawdf' = read_csv(disk[file], FallbackChain[3])
            /\ lpc' = "clean"
            /\ UNCHANGED <<pc, file, loaded, page, exc>>
       ELSE /\ HandleLoadError("Exception")
            /\ UNCHANGED <<lpc, rawdf>>
    /\ UNCHANGED <<fsVars, cache, uiVars>>

\* 'Name' not in df.columns, line 47
MissingName(d) == ~HasColumn(d, NameLabel)

\* lines 44-54: trim the labels, require 'Name', trim its values, return
\* (and memoize) the table.  st.stop() raises a control-flow exception that
\* 'except Exception' (line 68) does not catch.
Clean ==
    /\ pc = "load" /\ lpc = "clean"
    /\ LET d == rename_strip(rawdf) IN
       CASE MissingName(d) ->
              /\ page' = Append(page, "schema_error")
              /\ pc' = "stopped"
              /\ UNCHANGED <<cache, file, lpc, attempts, rawdf, loaded, exc>>
         [] ~MissingName(d) /\ ~HasStrAccessor(d, NameLabel) ->
              /\ HandleLoadError("AttributeError")
              /\ UNCHANGED <<cache, lpc, attempts, rawdf>>
         [] OTHER ->
              /\ cache' = [cache EXCEPT ![file] = str_strip(d, NameLabel)]
              /\ Return(str_strip(d, NameLabel))
    /\ UNCHANGED <<fsVars, uiVars>>

(***************************************************************************)
(* Selection and filter                                                    *)
(***************************************************************************)

\* an uncaught exception: Streamlit shows it and the run ends
Crash(e) ==
    /\ page' = Append(page, "exception")
    /\ exc' = e
    /\ pc' = "crashed"

\* the file a topic selects, lines 82-93
TopicFile(t) == CHOOSE i \in PathIdx : Topics[i] = t

\* lines 73-96: header, radio, dataset of the topic, caption
SelectTopic ==
    /\ pc = "topic"
    /\ \E t \in SeqToSet(Topics) :
          /\ topic' = t
          /\ df' = loaded[TopicFile(t)]
    /\ page' = page \o <<"header1", "radio", "caption">>
    /\ pc' = "years"
    /\ UNCHANGED <<fsVars, cache, loadVars, loaded, exc, numeric_cols,
                   available_years, year_range, year_columns, all_regions,
                   selected_regions, filtered_df>>

\* [col for col in df.columns if str(col).isdigit()], line 102
NumericCols(d) == SelectSeq(d.columns, isdigit)

\* [int(col) for col in numeric_cols], line 108
AvailableYears(cols) == [i \in 1..Len(cols) |-> int(cols[i])]

\* [str(year) for year in range(year_range[0], year_range[1]+1)], line 121
YearColumns(yr) == [i \in 1..Len(range(yr[1], yr[2])) |-> str(range(yr[1], yr[2])[i])]

\* the check for year columns left out
NoYears_Never(cols) == FALSE

\* 'not numeric_cols', line 103
NoYears(cols) == cols = <<>>

\* lines 99-105: header, then no year column: error and stop
NoYearsStop ==
    /\ pc = "years"
    /\ NoYears(NumericCols(df))
    /\ numeric_cols' = NumericCols(df)
    /\ page' = page \o <<"header2", "years_error">>
    /\ pc' = "stopped"
    /\ UNCHANGED <<fsVars, cache, loadVars, loaded, exc, topic, df,
                   available_years, year_range, year_columns, all_regions,
                   selected_regions, filtered_df>>

\* the values a range slider between lo and hi can return, lines 112-118
SliderValues(lo, hi) == {yr \in (lo..hi) \X (lo..hi) : yr[1] <= yr[2]}

\* lines 99-121: header, year columns, slider between min_year and max_year
\* (min() and max() of an empty list raise ValueError, line 109)
SelectYears ==
    /\ pc = "years"
    /\ ~NoYears(NumericCols(df))
    /\ numeric_cols' = NumericCols(df)
    /\ available_years' = AvailableYears(NumericCols(df))
    /\ LET years == SeqToSet(AvailableYears(NumericCols(df))) IN
       IF years = {}
       THEN /\ page' = page \o <<"header2", "exception">>
            /\ exc' = "ValueError"
            /\ pc' = "crashed"
            /\ UNCHANGED <<year_range, year_columns>>
       ELSE /\ \E yr \in SliderValues(Min(years), Max(years)) :
                  /\ year_range' = yr
                  /\ year_columns' = YearColumns(yr)
            /\ page' = page \o <<"header2", "slider">>
            /\ pc' = "regions"
            /\ UNCHANGED exc
    /\ UNCHANGED <<fsVars, cache, loadVars, loaded, topic, df,
                   all_regions, selected_regions, filtered_df>>

\* df['Name'] as a sequence of texts
NameValues(d) == [r \in 1..Len(d.rows) |-> CellOf(d, r, NameLabel).text]

\* Series.unique(): first occurrences, in order of appearance
RECURSIVE unique(_)
unique(s) ==
    IF s = <<>> THEN <<>>
    ELSE LET init == unique(SubSeq(s, 1, Len(s) - 1)) IN
         IF s[Len(s)] \in SeqToSet(init) THEN init
         ELSE Append(init, s[Len(s)])

\* the empty-selection check left out
NothingSelected_Never(sel) == FALSE

\* 'not selected_regions', line 138
NothingSelected(sel) == sel = {}

\* lines 124-140: header, regions of the table, multiselect, empty check.
\* default=[all_regions[0]] raises IndexError on a table without rows.
SelectRegions ==
    /\ pc = "regions"
    /\ all_regions' = unique(NameValues(df))
    /\ IF unique(NameValues(df)) = <<>>
       THEN /\ page' = page \o <<"header3", "exception">>
            /\ exc' = "IndexError"
            /\ pc' = "crashed"
            /\ UNCHANGED selected_regions
       ELSE \E sel \in SUBSET SeqToSet(unique(NameValues(df))) :
              /\ selected_regions' = sel
              /\ exc' = exc
              /\ IF NothingSelected(sel)
                 THEN /\ page' = page \o <<"header3", "multiselect", "warning">>
                      /\ pc' = "stopped"
                 ELSE /\ page' = page \o <<"header3", "multiselect">>
                      /\ pc' = "filter"
    /\ UNCHANGED <<fsVars, cache, loadVars, loaded, topic, df, numeric_cols,
                   available_years, year_range, year_columns, filtered_df>>

\* a comparison with the selection instead of a membership test
isin_Equals(v, values) == values = {v}

\* Series.isin(values) for one value
isin(v, values) == v \in values

\* df[mask]: the rows whose 'Name' is in the selection, in table order
RowsIn(d, sel) ==
    [d EXCEPT !.rows =
        SelectSeq(d.rows,
                  LAMBDA row : isin(row[CHOOSE i \in ColIdx(d, NameLabel) : TRUE].text, sel))]

\* the positions, in ascending order, of a set of column positions
RECURSIVE Ascending(_)
Ascending(S) ==
    IF S = {} THEN <<>> ELSE <<Min(S)>> \o Ascending(S \ {Min(S)})

\* positions df[[labels]] selects: for each label in turn, every column
\* carrying it
RECURSIVE Positions(_, _)
Positions(d, labels) ==
    IF labels = <<>> THEN <<>>
    ELSE Ascending(ColIdx(d, Head(labels))) \o Positions(d, Tail(labels))

\* df[[labels]] raises KeyError when a label is not a column
KeyMissing(d, labels) == \E i \in 1..Len(labels) : ~HasColumn(d, labels[i])

\* df[[labels]]
Take(d, labels) ==
    LET pos == Positions(d, labels) IN
    [d EXCEPT !.columns = [k \in 1..Len(pos) |-> d.columns[pos[k]]],
              !.rows = [r \in 1..Len(d.rows) |->
                           [k \in 1..Len(pos) |-> d.rows[r][pos[k]]]]]

\* line 143
Filter ==
    /\ pc = "filter"
    /\ IF KeyMissing(RowsIn(df, selected_regions), <<NameLabel>> \o year_columns)
       THEN /\ Crash("KeyError")
            /\ UNCHANGED filtered_df
       ELSE /\ filtered_df' = Take(RowsIn(df, selected_regions),
                                   <<NameLabel>> \o year_columns)
            /\ pc' = "chart"
            /\ UNCHANGED <<page, exc>>
    /\ UNCHANGED <<fsVars, cache, loadVars, loaded, topic, df, numeric_cols,
                   available_years, year_range, year_columns, all_regions,
                   selected_regions>>

\* lines 146-180: one line per row; 'years' (line 176) is bound only inside
\* the loop, so a table without rows raises NameError
RenderChart ==
    /\ pc = "chart"
    /\ IF filtered_df.rows = <<>>
       THEN /\ page' = page \o <<"header4", "exception">>
            /\ exc' = "NameError"
            /\ pc' = "crashed"
       ELSE /\ page' = page \o <<"header4", "chart">>
            /\ pc' = "table"
            /\ UNCHANGED exc
    /\ UNCHANGED <<fsVars, cache, loadVars, loaded, uiVars>>

\* lines 183-191
RenderTable ==
    /\ pc = "table"
    /\ page' = page \o <<"header5", "table">>
    /\ pc' = "summary"
    /\ UNCHANGED <<fsVars, cache, loadVars, loaded, exc, uiVars>>

\* lines 194-208: summary, then the debug panel opens every file again
RenderSummary ==
    /\ pc = "summary"
    /\ IF \A i \in PathIdx : disk[i].exists
       THEN /\ page' = page \o <<"summary", "debug">>
            /\ pc' = "done"
            /\ UNCHANGED exc
       ELSE /\ page' = page \o <<"summary", "exception">>
            /\ exc' = "FileNotFoundError"
            /\ pc' = "crashed"
    /\ UNCHANGED <<fsVars, cache, loadVars, loaded, uiVars>>

\* a user interaction after the end of a run: the script runs again from the
\* top with fresh script variables; the memo survives
Rerun ==
    /\ pc \in {"done", "stopped", "crashed"}
    /\ pc' = "idle" /\ file' = 0 /\ lpc' = "" /\ attempts' = <<>>
    /\ rawdf' = NoDf /\ loaded' = [i \in PathIdx |-> NoDf]
    /\ page' = <<>> /\ exc' = ""
    /\ topic' = "" /\ df' = NoDf /\ numeric_cols' = <<>>
    /\ available_years' = <<>> /\ year_range' = <<0, 0>>
    /\ year_columns' = <<>> /\ all_regions' = <<>>
    /\ selected_regions' = {} /\ filtered_df' = NoDf
    /\ UNCHANGED <<fsVars, cache>>

\* number of file replacements explored
MaxFileChanges == 2

\* the files a replacement puts behind a path: another table, or no file
Replacements ==
    { OnDisk(CsvGap, Outcomes("decode", "ok", "ok", "ok")),
      [exists |-> FALSE, csv |-> CsvNoRows,
       parse |-> Outcomes("other", "other", "other", "other")] }

\* the file behind a path is replaced between two runs; the memo is not told
FileChange ==
    /\ pc = "idle"
    /\ changes < MaxFileChanges
    /\ \E i \in PathIdx : \E f \in Replacements \ {disk[i]} :
          /\ disk' = [disk EXCEPT ![i] = f]
          /\ stale' = [stale EXCEPT ![i] = @ \/ cache[i] # NoDf]
    /\ changes' = changes + 1
    /\ UNCHANGED <<cache, pc, loadVars, loaded, page, exc, uiVars>>

Next ==
    \/ StartRun
    \/ CacheHit
    \/ CacheMiss
    \/ Detect
    \/ TryDetected
    \/ TryUtf8
    \/ TryCp1251
    \/ TryLatin1
    \/ Clean
    \/ SelectTopic
    \/ NoYearsStop
    \/ SelectYears
    \/ SelectRegions
    \/ Filter
    \/ RenderChart
    \/ RenderTable
    \/ RenderSummary
    \/ Rerun

Spec == Init /\ [][Next]_vars

\* the script together with files that change between runs
NextCache == Next \/ FileChange

SpecCache == Init /\ [][NextCache]_vars

(***************************************************************************)
(* The filter of line 143 on its own: any table load_data can return, any  *)
(* range the slider can return, and any non-empty set of identifiers,      *)
(* whether or not the table holds them.                                    *)
(***************************************************************************)

\* identifiers a caller of the filter may pass
RegionUniverse == {Moscow, Tula, Omsk, Kazan}

\* tables load_data returns and the script takes as far as line 143
LoadedTables ==
    { str_strip(rename_strip(read_csv(f, e)), NameLabel) :
        <<f, e>> \in { fe \in Pool \X Encodings :
            /\ fe[1].exists
            /\ fe[1].parse[fe[2]] = "ok"
            /\ ~MissingName(rename_strip(read_csv(fe[1], fe[2])))
            /\ HasStrAccessor(rename_strip(read_csv(fe[1], fe[2])), NameLabel)
            /\ ~NoYears(NumericCols(rename_strip(read_csv(fe[1], fe[2]))))
            /\ fe[1].csv.rows # <<>> } }

InitFilter ==
    /\ disk \in [PathIdx -> {OnDisk(CsvWide, Outcomes("ok", "ok", "ok", "ok"))}]
    /\ cache = [i \in PathIdx |-> NoDf]
    /\ stale = [i \in PathIdx |-> FALSE]
    /\ changes = 0
    /\ pc = "filter" /\ file = 0 /\ lpc = "" /\ attempts = <<>>
    /\ rawdf = NoDf /\ exc = ""
    /\ page = <<"title", "header1", "radio", "caption", "header2", "slider",
                "header3", "multiselect">>
    /\ topic = Topics[1]
    /\ df \in LoadedTables
    /\ loaded = [i \in PathIdx |-> df]
    /\ numeric_cols = NumericCols(df)
    /\ available_years = AvailableYears(numeric_cols)
    /\ year_range \in SliderValues(Min(SeqToSet(available_years)),
                                   Max(SeqToSet(available_years)))
    /\ year_columns = YearColumns(year_range)
    /\ all_regions = unique(NameValues(df))
    /\ selected_regions \in (SUBSET RegionUniverse) \ {{}}
    /\ filtered_df = NoDf

NextFilter ==
    \/ Filter
    \/ RenderChart
    \/ RenderTable
    \/ RenderSummary

SpecFilter == InitFilter /\ [][NextFilter]_vars

(***************************************************************************)
(* Properties                                                              *)
(***************************************************************************)

Last(s) == s[Len(s)]

\* the order the spec gives for the chain
ChainOrder == <<"detected", "utf-8", "cp1251", "latin1">>

\* the first encoding of the chain, in the spec's order, that reads a file
\* whose detected encoding reads it or raises a decode error
FirstReadable(f) ==
    ChainOrder[Min({k \in 1..Len(ChainOrder) : f.parse[ChainOrder[k]] = "ok"})]

\* C1: in load_data the encodings are attempted in the order detected,
\* UTF-8, CP1251, Latin-1; the fallbacks are entered only after a decode
\* error of the detected encoding; an encoding is attempted only if every
\* one before it failed, nothing is attempted after a success, and the table
\* load_data goes on with, and returns, is that of the first success.
C1_FallbackOrder ==
    /\ Len(attempts) <= Len(ChainOrder)
    /\ \A k \in 1..Len(attempts) : attempts[k].enc = ChainOrder[k]
    /\ \A k \in 1..(Len(attempts) - 1) : attempts[k].result # "ok"
    /\ Len(attempts) >= 2 => attempts[1].result = "decode"
    /\ rawdf # NoDf =>
          /\ attempts # <<>>
          /\ Last(attempts).result = "ok"
          /\ rawdf.enc = Last(attempts).enc
          /\ rawdf.enc = FirstReadable(disk[file])
    /\ \A i \in PathIdx : loaded[i] # NoDf => loaded[i].enc = FirstReadable(disk[i])

\* Latin-1 succeeded after the detected encoding, UTF-8 and CP1251 failed
C1_Witness ==
    /\ pc = "load" /\ lpc = "clean"
    /\ Len(attempts) = 4
    /\ attempts[1].result = "decode"
    /\ rawdf.enc = "latin1"

\* a label or value without leading or trailing whitespace
Trimmed(s) == s = <<>> \/ (s[1] \notin {" ", "\t"} /\ Last(s) \notin {" ", "\t"})

\* C2: after a successful parse load_data either returns a table whose
\* labels are all trimmed and include 'Name', or fails with the schema error
\* (message shown, run stopped); nothing else happens.
C2_TwoOutcomes ==
    /\ \A i \in PathIdx : loaded[i] # NoDf =>
          /\ \A c \in 1..Len(loaded[i].columns) : Trimmed(loaded[i].columns[c])
          /\ \E c \in 1..Len(loaded[i].columns) : loaded[i].columns[c] = NameLabel
    /\ (rawdf # NoDf /\ pc # "load") =>
          /\ pc = "stopped"
          /\ Last(page) = "schema_error"
          /\ exc = ""

\* C3 as stated: when a load fails, an error is shown, no later file is
\* loaded and no page element at all, the title included, is rendered.
C3_NoElementAtAll ==
    (pc = "stopped" /\ file # 0) =>
        /\ \A k \in 1..Len(page) : page[k] \in {"load_error", "schema_error"}
        /\ \A j \in PathIdx : j >= file => loaded[j] = NoDf

\* C3 amended: when a load fails, the page of the run is the title (rendered
\* before the load block) followed by one error message, the failing file and
\* the files after it are not loaded, and nothing more happens in that run.
C3_OnlyTitleAndError ==
    /\ [] ((pc = "stopped" /\ file # 0) =>
             /\ Len(page) = 2
             /\ page[1] = "title"
             /\ page[2] \in {"load_error", "schema_error"}
             /\ \A j \in PathIdx : j >= file => loaded[j] = NoDf)
    /\ [][(pc = "stopped" /\ file # 0) => (pc' = "idle" /\ page' = <<>>)]_vars

\* the second file failed after the first was loaded
C3_Witness ==
    /\ pc = "stopped" /\ file = 2
    /\ loaded[1] # NoDf
    /\ page = <<"title", "schema_error">>

\* a text made of decimal digits only
AllDecimal(s) ==
    s # <<>> /\ \A i \in 1..Len(s) :
        s[i] \in {"0", "1", "2", "3", "4", "5", "6", "7", "8", "9"}

DecimalDigit(c) ==
    CASE c = "0" -> 0 [] c = "1" -> 1 [] c = "2" -> 2 [] c = "3" -> 3
      [] c = "4" -> 4 [] c = "5" -> 5 [] c = "6" -> 6 [] c = "7" -> 7
      [] c = "8" -> 8 [] c = "9" -> 9

\* the sum of digit times place value over the first k characters
RECURSIVE PlaceSum(_, _)
PlaceSum(s, k) ==
    IF k = 0 THEN 0
    ELSE DecimalDigit(s[k]) * 10 ^ (Len(s) - k) + PlaceSum(s, k - 1)

DecimalValue(s) == PlaceSum(s, Len(s))

\* the year labels of a table whose year lies in a range
YearLabelsIn(d, yr) ==
    {c \in SeqToSet(d.columns) :
        AllDecimal(c) /\ DecimalValue(c) >= yr[1] /\ DecimalValue(c) <= yr[2]}

\* C4: for every table, gaps between the years included, and every range
\* the slider can return, the filter succeeds and the filtered table has
\* exactly 'Name' and the year columns of the table that lie in the range.
C4_FilterColumns ==
    /\ exc # "KeyError"
    /\ filtered_df # NoDf =>
          /\ filtered_df.columns[1] = NameLabel
          /\ {filtered_df.columns[k] : k \in 2..Len(filtered_df.columns)}
                = YearLabelsIn(df, year_range)
          /\ Len(filtered_df.columns) = 1 + Cardinality(YearLabelsIn(df, year_range))

\* the position of the 'Name' column of a loaded table
NamePos(d) == CHOOSE i \in 1..Len(d.columns) : d.columns[i] = NameLabel

\* the rows of a table whose 'Name' is in a set
RowsNamed(d, names) == {r \in 1..Len(d.rows) : d.rows[r][NamePos(d)].text \in names}

\* the k-th smallest element of a set of numbers
Kth(S, k) == CHOOSE x \in S : Cardinality({y \in S : y < x}) = k - 1

\* C5: the rows of the filtered table are the rows of the table whose 'Name'
\* is in the chosen set, in table order, cell for cell; identifiers that
\* match no row add nothing, and the only error the filter raises is that of
\* a year label that is not a column, whatever the chosen set.
C5_RowsOfChosen ==
    /\ filtered_df # NoDf =>
          LET chosen == RowsNamed(df, selected_regions) IN
          /\ Len(filtered_df.rows) = Cardinality(chosen)
          /\ \A k \in 1..Len(filtered_df.rows) :
                \A c \in 1..Len(filtered_df.columns) :
                   \E i \in 1..Len(df.columns) :
                      /\ df.columns[i] = filtered_df.columns[c]
                      /\ filtered_df.rows[k][c] = df.rows[Kth(chosen, k)][i]
    /\ (pc # "filter" /\ filtered_df = NoDf) =>
          /\ exc = "KeyError"
          /\ \E k \in 1..Len(year_columns) :
                \A i \in 1..Len(df.columns) : df.columns[i] # year_columns[k]

\* one identifier of the table and one that no row carries were chosen, and
\* the filter returned the rows of the first
C5_Witness ==
    /\ selected_regions = {Tula, Kazan}
    /\ filtered_df # NoDf
    /\ Len(filtered_df.rows) = 1
    /\ filtered_df.rows[1][1].text = Tula
    /\ exc = ""

Rendered(e) == \E k \in 1..Len(page) : page[k] = e

\* C6: the filter, the chart, the table and the summary are reached with a
\* non-empty selection only; an empty selection shows the warning and stops
\* the run right after the multiselect.
C6_EmptySelectionRejected ==
    /\ (\/ pc \in {"filter", "chart", "table", "summary", "done"}
        \/ filtered_df # NoDf
        \/ Rendered("header4") \/ Rendered("chart") \/ Rendered("table")
        \/ Rendered("summary"))
          => selected_regions # {}
    /\ (Rendered("multiselect") /\ selected_regions = {}) =>
          /\ pc = "stopped"
          /\ Last(page) = "warning"
          /\ filtered_df = NoDf

\* the user deselected every region: warning shown, run stopped
C6_Witness ==
    /\ Rendered("multiselect")
    /\ selected_regions = {}
    /\ pc = "stopped"
    /\ Last(page) = "warning"

\* C7: once a call of load_data for a path has succeeded, and while the file
\* is unchanged, no later call for that path runs detection or parsing, every
\* later call returns the table of the first, and that table is kept.
C7_Memoized ==
    /\ [] (\A i \in PathIdx : (cache[i] # NoDf /\ ~stale[i]) =>
             /\ ~(pc = "load" /\ file = i /\ lpc \notin {"call", ""})
             /\ loaded[i] \in {NoDf, cache[i]})
    /\ [][\A i \in PathIdx : cache[i] # NoDf => cache'[i] = cache[i]]_vars

\* a later run: the first file was answered from the memo (all three tables
\* were stored by an earlier run) and its file is unchanged
C7_Witness ==
    /\ pc = "load" /\ file = 2 /\ lpc = "call"
    /\ \A i \in PathIdx : cache[i] # NoDf
    /\ ~stale[1]
    /\ loaded[1] = cache[1]

\* a text equal to t up to whitespace around it
IsPadded(raw, t) ==
    \E a \in 1..(Len(raw) + 1) : \E b \in 0..Len(raw) :
        /\ SubSeq(raw, a, b) = t
        /\ \A i \in 1..Len(raw) : (i < a \/ i > b) => raw[i] \in {" ", "\t"}

\* the identifiers of the file of the selected topic, as written in the file
RawNames ==
    LET csv == disk[TopicFile(topic)].csv
        pos == CHOOSE i \in 1..Len(csv.columns) : IsPadded(csv.columns[i], NameLabel)
    IN [r \in 1..Len(csv.rows) |-> csv.rows[r][pos].text]

\* C8: the 'Name' values of a loaded table are trimmed; identifiers of the
\* file that differ only in surrounding whitespace are one region in the
\* list of regions, and selecting it returns every row that carries it.
C8_TrimmedIdentifiers ==
    /\ \A i \in PathIdx : loaded[i] # NoDf =>
          \A r \in 1..Len(loaded[i].rows) :
             Trimmed(loaded[i].rows[r][NamePos(loaded[i])].text)
    /\ all_regions # <<>> =>
          /\ Cardinality(SeqToSet(all_regions)) = Len(all_regions)
          /\ \A r \in 1..Len(RawNames) :
                Cardinality({k \in 1..Len(all_regions) :
                                IsPadded(RawNames[r], all_regions[k])}) = 1
    /\ filtered_df # NoDf =>
          \A g \in selected_regions :
             Cardinality({k \in 1..Len(filtered_df.rows) :
                             filtered_df.rows[k][1].text = g})
               = Cardinality({r \in 1..Len(RawNames) : IsPadded(RawNames[r], g)})

\* ' Mos ' and 'Mos' of the file are one region, and selecting it returned
\* both rows
C8_Witness ==
    /\ filtered_df # NoDf
    /\ disk[TopicFile(topic)].csv = CsvWide
    /\ all_regions = <<Moscow, Tula>>
    /\ selected_regions = {Moscow}
    /\ Len(filtered_df.rows) = 2

HasYearColumn(d) == \E c \in 1..Len(d.columns) : AllDecimal(d.columns[c])

\* C10 as stated: past the year selection every loaded table has a year
\* column (else the run was aborted with an error).
C10_EveryLoadedHasYears ==
    pc \in {"regions", "filter", "chart", "table", "summary", "done"} =>
        \A i \in PathIdx : HasYearColumn(loaded[i])

\* C10 amended: past the year selection the table of the selected topic has
\* a year column; when it has none, the error is shown and the run stops
\* before the slider, the region selector, the chart and the table.
C10_SelectedHasYears ==
    /\ (\/ pc \in {"regions", "filter", "chart", "table", "summary", "done"}
        \/ Rendered("slider") \/ Rendered("multiselect") \/ Rendered("chart")
        \/ Rendered("table"))
          => HasYearColumn(df)
    /\ (topic # "" /\ pc # "years" /\ ~HasYearColumn(df)) =>
          /\ pc = "stopped"
          /\ Last(page) = "years_error"
          /\ ~Rendered("slider") /\ ~Rendered("multiselect")
          /\ ~Rendered("chart") /\ ~Rendered("table")

\* the table of the selected topic has no year column: error, run stopped
C10_Witness ==
    /\ topic # ""
    /\ ~HasYearColumn(df)
    /\ pc = "stopped"
    /\ Last(page) = "years_error"

====
